---- MODULE Spec2Model ----
(***************************************************************************)
(* Model of the linkytic binary sensors                                    *)
(* (src/custom_components/linkytic/binary_sensor.py).                      *)
(*                                                                         *)
(* Spec       : one RelayState entity and its update() handler.            *)
(* SetupSpec  : async_setup_entry, the entities it registers, the push     *)
(*              notifications of the reader and the host's refreshes.      *)
(* FairSetup  : SetupSpec with the event loop resuming the coroutine.      *)
(***************************************************************************)
EXTENDS Integers, Sequences, FiniteSets

VARIABLES
    \* ---- RelayState (one entity) ----
    relay_index,     \* self._relay_index, 0-based bit position
    attr_available,  \* self._attr_available
    last_state,      \* self._last_state
    attr_icon,       \* self._attr_icon
    value,           \* what get_values("RELAIS") returned to the last update()
    full_frame,      \* what has_read_full_frame() answers during the last update()
    outcome,         \* how the last update() ended: "none", "ok" or the exception raised
    log,             \* the availability lines update() wrote with _LOGGER.info, in order
    repeated,        \* TRUE iff the last update() got the same inputs as the one before it
    \* ---- async_setup_entry and the host ----
    hass_data,       \* TRUE iff hass.data[DOMAIN] holds the entry's serial reader
    tic_mode,        \* config_entry.data.get(SETUP_TICMODE)
    pc,              \* position of the async_setup_entry coroutine
    i,               \* its loop variable
    checks,          \* has_read_full_frame() results, one per completed sleep
    frame_read,      \* the reader's has_read_full_frame()
    setup_log,       \* the last _LOGGER.error / warning of the setup, or "none"
    added,           \* the async_add_entities calls made, in order
    push_notifs,     \* the reader's register_push_notif registry
    scheduled,       \* state refreshes requested from the host, in order
    last             \* the last operation that ran: [op, entity]

relayVars == <<relay_index, attr_available, last_state, attr_icon, value,
               full_frame, outcome, log, repeated>>
setupVars == <<hass_data, tic_mode, pc, i, checks, frame_read, setup_log,
               added, push_notifs, scheduled, last>>
vars == <<relayVars, setupVars>>

----------------------------------------------------------------------------
\* Bounds of the model

\* values below 0 and above 255 offered to update(): -MaxOutOfRange..-1 and
\* 256..255+MaxOutOfRange
MaxOutOfRange == 2
\* refresh requests the host holds at once
MaxScheduled == 2

\* Program constants
BitfieldWidth == 8      \* "{0:08b}"
RelayCount == 8         \* range(1,9)
SetupWaits == 9         \* range(9)

----------------------------------------------------------------------------
\* Python values: None, bool, int and str are kept apart by their type.

PyNone == [type |-> "NoneType", val |-> 0]
PyInt(n) == [type |-> "int", val |-> n]
PyBool(b) == [type |-> "bool", val |-> IF b THEN 1 ELSE 0]
\* a text that is not the decimal form of an integer
PyText == [type |-> "str", val |-> 0]

\* bool(x) of Python
Truthy(x) == x.type \in {"bool", "int"} /\ x.val # 0

ByteValues == 0 .. (2 ^ BitfieldWidth - 1)
\* the bytes the reader hands out here: no relay closed, each single relay
\* closed, relays 1 and 7 closed (130), every relay closed
RelaisValues ==
    {0, 130, 2 ^ BitfieldWidth - 1} \cup {2 ^ k : k \in 0 .. (BitfieldWidth - 1)}
OutOfRangeValues ==
    ((0 - MaxOutOfRange) .. -1)
        \cup (2 ^ BitfieldWidth .. (2 ^ BitfieldWidth - 1 + MaxOutOfRange))

\* what get_values(self._tag) can hand to update()
ReaderValues ==
    {PyNone, PyText} \cup {PyInt(n) : n \in RelaisValues \cup OutOfRangeValues}

IconOpen == "mdi:electric-switch"
IconClosed == "mdi:electric-switch-closed"

----------------------------------------------------------------------------
\* int(value): TypeError on None, ValueError on a non-numeric text

IntConv(x) ==
    CASE x.type = "NoneType" -> [raised |-> "TypeError", result |-> PyNone]
      [] x.type = "str" -> [raised |-> "ValueError", result |-> PyNone]
      [] OTHER -> [raised |-> "none", result |-> PyInt(x.val)]

\* the binary digits of n >= 0, most significant first, no padding
RECURSIVE BinDigits(_)
BinDigits(n) ==
    IF n < 2 THEN <<IF n = 1 THEN "1" ELSE "0">>
    ELSE Append(BinDigits(n \div 2), IF n % 2 = 1 THEN "1" ELSE "0")

RECURSIVE Zeros(_)
Zeros(k) == IF k <= 0 THEN <<>> ELSE <<"0">> \o Zeros(k - 1)

\* "{0:08b}".format(n): sign, then zeros up to a total width of 8, then digits;
\* never truncated
Format08b(n) ==
    LET sign == IF n < 0 THEN <<"-">> ELSE <<>>
        digits == BinDigits(IF n < 0 THEN 0 - n ELSE n)
    IN sign \o Zeros(BitfieldWidth - Len(sign) - Len(digits)) \o digits

\* state_bitfield[self._relay_index] == "1"
DecodeBit(n, idx) == Format08b(n)[idx + 1] = "1"

----------------------------------------------------------------------------
\* RelayState

\* RelayState.__init__ for relay_index = k (1-based).  _attr_available is not
\* assigned by the constructor: it comes from the host's entity class, so
\* the entity's starting availability is left open here.
RelayInit ==
    /\ relay_index \in {k - 1 : k \in 1 .. RelayCount}
    /\ attr_available \in BOOLEAN
    /\ last_state = PyNone
    /\ attr_icon = IconOpen
    /\ value = PyNone
    /\ full_frame = FALSE
    /\ outcome = "none"
    /\ log = <<>>
    /\ repeated = FALSE

\* the property is_on
is_on == last_state

\* the availability branch writing its "available now" line on every update
\* that finds the value, whether or not the flag flips
AvailabilityStep_EveryCall(available, v, frame) ==
    IF v = PyNone
    THEN IF available /\ frame
         THEN [available |-> FALSE, line |-> <<"unavailable">>]
         ELSE [available |-> available, line |-> <<>>]
    ELSE [available |-> TRUE, line |-> <<"available">>]

\* lines 178-193: the availability branch, on the converted value v
AvailabilityStep(available, v, frame) ==
    IF v = PyNone
    THEN IF available /\ frame
         THEN [available |-> FALSE, line |-> <<"unavailable">>]
         ELSE [available |-> available, line |-> <<>>]
    ELSE IF ~available
         THEN [available |-> TRUE, line |-> <<"available">>]
         ELSE [available |-> available, line |-> <<>>]

\* lines 196-204: the decoded bit picks the icon, then _last_state is
\* assigned the bit (line 197) and, last, the integer value (line 204)
DecodeStep(v, idx) ==
    LET bit == PyBool(DecodeBit(v.val, idx))
    IN [icon |-> IF Truthy(bit) THEN IconClosed ELSE IconOpen, state |-> v]

\* update() with the None test moved ahead of int(value) and the availability
\* revoked without asking has_read_full_frame()
update_NoneFirst(raw, frame) ==
    LET conv == IntConv(raw)
    IN /\ value' = raw
       /\ full_frame' = frame
       /\ repeated' = (outcome # "none" /\ raw = value /\ frame = full_frame)
       /\ IF raw = PyNone
          THEN /\ outcome' = "ok"
               /\ attr_available' = FALSE
               /\ log' = IF attr_available THEN log \o <<"unavailable">> ELSE log
               /\ UNCHANGED <<last_state, attr_icon>>
          ELSE IF conv.raised # "none"
          THEN /\ outcome' = conv.raised
               /\ UNCHANGED <<attr_available, last_state, attr_icon, log>>
          ELSE LET v == conv.result
                   av == AvailabilityStep(attr_available, v, frame)
                   d == DecodeStep(v, relay_index)
               IN /\ outcome' = "ok"
                  /\ attr_available' = av.available
                  /\ log' = log \o av.line
                  /\ last_state' = d.state
                  /\ attr_icon' = d.icon
       /\ UNCHANGED <<relay_index, setupVars>>

\* RelayState.update(), with raw = get_values("RELAIS")[0] and frame the
\* answer of has_read_full_frame()
update(raw, frame) ==
    LET conv == IntConv(raw)
    IN /\ value' = raw
       /\ full_frame' = frame
       /\ repeated' = (outcome # "none" /\ raw = value /\ frame = full_frame)
       /\ IF conv.raised # "none"
          THEN \* int(value) raised at line 176: nothing below it runs
               /\ outcome' = conv.raised
               /\ UNCHANGED <<attr_available, last_state, attr_icon, log>>
          ELSE LET v == conv.result
                   av == AvailabilityStep(attr_available, v, frame)
               IN /\ outcome' = "ok"
                  /\ attr_available' = av.available
                  /\ log' = log \o av.line
                  /\ IF v = PyNone
                     THEN UNCHANGED <<last_state, attr_icon>>
                     ELSE LET d == DecodeStep(v, relay_index)
                          IN /\ last_state' = d.state
                             /\ attr_icon' = d.icon
       /\ UNCHANGED <<relay_index, setupVars>>

----------------------------------------------------------------------------
\* async_setup_entry, the reader's registry and the host

SerialConnectivity == [class |-> "SerialConnectivity", relay_index |-> 0]
\* RelayState(..., relay_index=k) for k in range(1,9)
Relays == {[class |-> "RelayState", relay_index |-> k] : k \in 1 .. RelayCount}
NoEntity == [class |-> "none", relay_index |-> 0]

\* _attr_should_poll of the entity's class
ShouldPoll(e) == e.class = "SerialConnectivity"

\* the entities handed to async_add_entities so far
AddedEntities == UNION {added[k].entities : k \in 1 .. Len(added)}

RelayIdle ==
    /\ relay_index = 0
    /\ attr_available = TRUE
    /\ last_state = PyNone
    /\ attr_icon = IconOpen
    /\ value = PyNone
    /\ full_frame = FALSE
    /\ outcome = "none"
    /\ log = <<>>
    /\ repeated = FALSE

SetupIdle ==
    /\ hass_data = FALSE
    /\ tic_mode = "historic"
    /\ pc = "start"
    /\ i = 0
    /\ checks = <<>>
    /\ frame_read = FALSE
    /\ setup_log = "none"
    /\ added = <<>>
    /\ push_notifs = {}
    /\ scheduled = <<>>
    /\ last = [op |-> "init", entity |-> NoEntity]

\* the state in which the host calls async_setup_entry
SetupInit ==
    /\ hass_data \in BOOLEAN
    /\ tic_mode \in {"standard", "historic"}
    /\ pc = "start"
    /\ i = 0
    /\ checks = <<>>
    /\ frame_read \in BOOLEAN
    /\ setup_log = "none"
    /\ added = <<>>
    /\ push_notifs = {}
    /\ scheduled = <<>>
    /\ last = [op |-> "init", entity |-> NoEntity]

\* lines 65-73: the relays are constructed (each registers its callback for
\* "RELAIS") and added in standard mode, then the connectivity sensor is added
InitSensors ==
    /\ IF tic_mode = "standard"
       THEN /\ push_notifs' = push_notifs \cup {<<"RELAIS", e>> : e \in Relays}
            /\ added' = added \o
                 <<[entities |-> Relays, update_before_add |-> TRUE],
                   [entities |-> {SerialConnectivity}, update_before_add |-> TRUE]>>
       ELSE /\ push_notifs' = push_notifs
            /\ added' = Append(added,
                 [entities |-> {SerialConnectivity}, update_before_add |-> TRUE])
    /\ pc' = "done"

\* the start of the setup with the return after the error line left out
async_setup_entry_NoReturn ==
    /\ pc = "start"
    /\ setup_log' = IF hass_data THEN setup_log ELSE "error"
    /\ pc' = "sleep"
    /\ i' = 0
    /\ last' = [op |-> "async_setup_entry", entity |-> NoEntity]
    /\ UNCHANGED <<checks, frame_read, added, push_notifs, scheduled, hass_data,
                   tic_mode, relayVars>>

\* async_setup_entry up to its first await: lines 36-52
async_setup_entry ==
    /\ pc = "start"
    /\ IF hass_data
       THEN /\ pc' = "sleep"
            /\ i' = 0
            /\ UNCHANGED setup_log
       ELSE \* KeyError: the error is logged and the setup returns
            /\ setup_log' = "error"
            /\ pc' = "done"
            /\ UNCHANGED i
    /\ last' = [op |-> "async_setup_entry", entity |-> NoEntity]
    /\ UNCHANGED <<checks, frame_read, added, push_notifs, scheduled, hass_data,
                   tic_mode, relayVars>>

\* the wait loop with the break left out
setup_resume_NoBreak ==
    /\ pc = "sleep"
    /\ checks' = Append(checks, frame_read)
    /\ IF i = SetupWaits - 1
       THEN /\ setup_log' = IF frame_read THEN setup_log ELSE "warning"
            /\ InitSensors
            /\ UNCHANGED i
       ELSE /\ i' = i + 1
            /\ UNCHANGED <<setup_log, pc, added, push_notifs>>
    /\ last' = [op |-> "setup_resume", entity |-> NoEntity]
    /\ UNCHANGED <<frame_read, scheduled, hass_data, tic_mode, relayVars>>

\* async_setup_entry resumed after asyncio.sleep(1): lines 52-73
setup_resume ==
    /\ pc = "sleep"
    /\ checks' = Append(checks, frame_read)
    /\ IF frame_read
       THEN \* break
            /\ InitSensors
            /\ UNCHANGED <<i, setup_log>>
       ELSE IF i = SetupWaits - 1
       THEN /\ setup_log' = "warning"
            /\ InitSensors
            /\ UNCHANGED i
       ELSE /\ i' = i + 1
            /\ UNCHANGED <<setup_log, pc, added, push_notifs>>
    /\ last' = [op |-> "setup_resume", entity |-> NoEntity]
    /\ UNCHANGED <<frame_read, scheduled, hass_data, tic_mode, relayVars>>

\* the reader finishes a frame, or loses its frames on a serial reset
ReaderFrame ==
    /\ frame_read' = ~frame_read
    /\ last' = [op |-> "reader_frame", entity |-> NoEntity]
    /\ UNCHANGED <<hass_data, tic_mode, pc, i, checks, setup_log, added,
                   push_notifs, scheduled, relayVars>>

\* the callback asking for a refresh that is not forced
update_notification_NotForced(e, realtime_option) ==
    /\ <<"RELAIS", e>> \in push_notifs
    /\ Len(scheduled) < MaxScheduled
    /\ scheduled' = Append(scheduled, [entity |-> e, force_refresh |-> FALSE])
    /\ last' = [op |-> "update_notification", entity |-> e]
    /\ UNCHANGED <<hass_data, tic_mode, pc, i, checks, frame_read, setup_log,
                   added, push_notifs, relayVars>>

\* RelayState.update_notification, called by the reader on the callback that
\* entity e registered for "RELAIS"
update_notification(e, realtime_option) ==
    /\ <<"RELAIS", e>> \in push_notifs
    /\ Len(scheduled) < MaxScheduled
    /\ scheduled' = Append(scheduled, [entity |-> e, force_refresh |-> TRUE])
    /\ last' = [op |-> "update_notification", entity |-> e]
    /\ UNCHANGED <<hass_data, tic_mode, pc, i, checks, frame_read, setup_log,
                   added, push_notifs, relayVars>>

\* the host runs the oldest requested refresh: update() first when forced
HostRefresh ==
    /\ scheduled # <<>>
    /\ last' = [op |-> IF Head(scheduled).force_refresh THEN "update" ELSE "write_state",
                entity |-> Head(scheduled).entity]
    /\ scheduled' = Tail(scheduled)
    /\ UNCHANGED <<hass_data, tic_mode, pc, i, checks, frame_read, setup_log,
                   added, push_notifs, relayVars>>

\* the host's periodic poll of an added entity whose class asks for polling
HostPoll(e) ==
    /\ e \in AddedEntities
    /\ ShouldPoll(e)
    /\ last' = [op |-> "poll", entity |-> e]
    /\ UNCHANGED <<hass_data, tic_mode, pc, i, checks, frame_read, setup_log,
                   added, push_notifs, scheduled, relayVars>>

----------------------------------------------------------------------------
\* Specifications

Init == RelayInit /\ SetupIdle

Next == \E raw \in ReaderValues, frame \in BOOLEAN : update(raw, frame)

Spec == Init /\ [][Next]_vars

SetupStart == RelayIdle /\ SetupInit

SetupNext ==
    \/ async_setup_entry
    \/ setup_resume
    \/ ReaderFrame
    \/ \E e \in Relays, realtime_option \in BOOLEAN :
           update_notification(e, realtime_option)
    \/ HostRefresh
    \/ \E e \in Relays \cup {SerialConnectivity} : HostPoll(e)

SetupSpec == SetupStart /\ [][SetupNext]_vars

\* the event loop starts the coroutine and resumes it when its sleep is over
FairSetup ==
    SetupSpec /\ WF_vars(async_setup_entry) /\ WF_vars(setup_resume)

----------------------------------------------------------------------------
\* Properties

\* bit idx of byte v, counted from the most significant of its 8 bits
BitMsbFirst(v, idx) == (v \div (2 ^ (BitfieldWidth - 1 - idx))) % 2 = 1

PresentByte(x) == x.type = "int" /\ x.val \in ByteValues

\* C1: after an update() that read a byte v for RELAIS, is_on is true iff
\* bit relay_index (most significant first) of v is 1.  The weakest reading
\* is taken: is_on only has to be truthy exactly when the bit is set.
C1_IsOnIsDecodedBit ==
    (outcome = "ok" /\ PresentByte(value))
        => (Truthy(is_on) <=> BitMsbFirst(value.val, relay_index))

\* C2: from an available entity, an update() that finds RELAIS absent while a
\* full frame has been read makes the entity unavailable; one more such
\* update() leaves it unavailable and writes no further availability line.
C2_AbsentAfterFullFrameRevokes ==
    [][(value' = PyNone /\ full_frame')
          => /\ attr_available => (~attr_available' /\ log' = log \o <<"unavailable">>)
             /\ ~attr_available => (~attr_available' /\ log' = log)]_vars

\* C3: from an unavailable entity, an update() that finds a byte for RELAIS
\* makes the entity available and sets the observed state to the bit decoded
\* from that byte.
C3_RecoveryRecomputesState ==
    [][(~attr_available /\ PresentByte(value'))
          => /\ attr_available'
             /\ Truthy(last_state') <=> BitMsbFirst(value'.val, relay_index)]_vars

\* C4: the availability flag goes from true to false only in an update() that
\* finds RELAIS absent while a full frame has been read; an update() that
\* finds it absent while no full frame has been read leaves the flag alone.
C4_RevokedOnlyAfterFullFrame ==
    [][/\ (attr_available /\ ~attr_available') => (value' = PyNone /\ full_frame')
       /\ (value' = PyNone /\ ~full_frame') => (attr_available' = attr_available)]_vars

\* an update() has found RELAIS absent before any full frame, on an entity
\* that had become available, and it still is
C4_Witness ==
    /\ value = PyNone
    /\ ~full_frame
    /\ outcome # "none"
    /\ attr_available
    /\ log = <<"available">>

\* C5: an update() that reads a RELAIS value outside 0..255 ends in a decode
\* failure and leaves the observed state as it was.
C5_OutOfRangeFails ==
    [][(value'.type = "int" /\ value'.val \notin ByteValues)
          => (outcome' # "ok" /\ last_state' = last_state)]_vars

\* C6: an update() that gets the same value and the same full-frame answer as
\* the update() before it changes neither the observed state, the
\* availability nor the icon, and writes no availability line.
C6_Idempotent ==
    [][(outcome # "none" /\ value' = value /\ full_frame' = full_frame)
          => /\ last_state' = last_state
             /\ attr_available' = attr_available
             /\ attr_icon' = attr_icon
             /\ log' = log]_vars

\* update() has run twice in a row on the same byte, the first run having
\* made the entity available
C6_Witness ==
    /\ repeated
    /\ outcome = "ok"
    /\ PresentByte(value)
    /\ log = <<"available">>
    /\ attr_icon = IconClosed

\* C7: an update() that finds RELAIS absent completes without raising and
\* leaves the observed state as it was.
C7_AbsentIsNotFatal ==
    [][(value' = PyNone) => (outcome' = "ok" /\ last_state' = last_state)]_vars

\* C8: every constructed RelayState has its callback registered for RELAIS;
\* each notification delivered to it requests exactly one forced refresh; the
\* host never polls a RelayState.
C8_PushDriven ==
    /\ [](\A e \in AddedEntities :
             e.class = "RelayState" => <<"RELAIS", e>> \in push_notifs)
    /\ [][last'.op = "update_notification"
             => scheduled' = Append(scheduled,
                    [entity |-> last'.entity, force_refresh |-> TRUE])]_vars
    /\ [](last.op = "poll" => last.entity.class # "RelayState")

\* a relay's notification has just been delivered while an earlier request
\* was still waiting
C8_Witness ==
    /\ last.op = "update_notification"
    /\ last.entity \in Relays
    /\ Len(scheduled) = 2

\* C9: without a reader in hass.data the setup returns at once: no raise, no
\* wait, no relay constructed, no entity added.
C9_NoReaderNoEntities ==
    ~hass_data =>
        /\ pc \in {"start", "done"}
        /\ checks = <<>>
        /\ added = <<>>
        /\ push_notifs = {}

\* the setup has returned for want of a reader
C9_Witness == ~hass_data /\ pc = "done" /\ setup_log = "error"

\* the waits made so far all found no full frame, except possibly the last
OnlyLastCheckTrue == \A k \in 1 .. (Len(checks) - 1) : ~checks[k]

\* C10: with a reader the setup ends and adds the SerialConnectivity entity,
\* after 1 to 9 waits, the last of which is the first to find a full frame or
\* else the ninth.
C10_SetupTerminates ==
    /\ []((hass_data /\ pc = "sleep")
             => (Len(checks) < SetupWaits /\ \A k \in 1 .. Len(checks) : ~checks[k]))
    /\ []((hass_data /\ pc = "done")
             => /\ Len(checks) \in 1 .. SetupWaits
                /\ OnlyLastCheckTrue
                /\ (~checks[Len(checks)] => Len(checks) = SetupWaits)
                /\ SerialConnectivity \in AddedEntities)
    /\ (hass_data ~> (pc = "done"))

\* the setup has added its entities after nine waits that found no full frame
C10_Witness ==
    /\ hass_data
    /\ pc = "done"
    /\ Len(checks) = SetupWaits
    /\ \A k \in 1 .. Len(checks) : ~checks[k]
    /\ setup_log = "warning"
    /\ SerialConnectivity \in AddedEntities

====
